---- MODULE Spec2Model ----
(***************************************************************************)
(* Model of the batch route parse() of src/app.py (the Batch Orchestrator, *)
(* the Escalation Gate and the Confidence Merge Policy) and of the model   *)
(* call contract of src/llm_helper.py.                                      *)
(*                                                                         *)
(* Abstractions:                                                           *)
(*  - a document's text is represented by the set of fields the rule       *)
(*    engine finds in it; the value it finds is the token "rule";          *)
(*  - a value supplied by the model is the token "llm", so the provenance  *)
(*    of a final value can be read off the value;                          *)
(*  - Python's None is the token "None";                                   *)
(*  - confidences are integers in hundredths (0.8 is 80);                  *)
(*  - the file_link / original_link keys added to a record are storage     *)
(*    layout and are left out.                                             *)
(***************************************************************************)
EXTENDS Integers, Sequences, FiniteSets, TLC

(***************************************************************************)
(* Bounds of the model.                                                    *)
(***************************************************************************)
MaxFiles == 3
MaxBatchSize == 2
MaxWorkers == 2
MaxLlmConcurrency == 1
MaxQueries == 3

(***************************************************************************)
(* Values and fields.                                                      *)
(***************************************************************************)
None == "None"

fields ==
    << "full_name", "email", "phone_number", "alternate_phone_number",
       "highest_qualification", "years_of_experience", "current_company",
       "current_designation", "city", "state" >>

FieldSet == { fields[k] : k \in 1..Len(fields) }

Prefix(k) == { fields[j] : j \in 1..k }

Suffix(k) == { fields[j] : j \in (Len(fields) - k + 1)..Len(fields) }

CONF_THRESHOLD == 80

AllNone == [f \in FieldSet |-> None]

UnknownCount(rec) == Cardinality({ f \in FieldSet : rec[f] = None })

(***************************************************************************)
(* Rule engine: parse_resume_text(content).  content is None (the reader   *)
(* returned nothing) or a text, represented by the set of fields found.    *)
(***************************************************************************)
NoContent == [is_none |-> TRUE, found |-> {}]

Text(found) == [is_none |-> FALSE, found |-> found]

ParseRaises(content) == content.is_none

parse_resume_text(content) ==
    [f \in FieldSet |-> IF f \in content.found THEN "rule" ELSE None]

(***************************************************************************)
(* Model output.  An entry of the answer object is null, a dict            *)
(* {value, confidence} (either key possibly missing or malformed) or a     *)
(* bare JSON value.                                                        *)
(***************************************************************************)
NullEntry == [shape |-> "null", value |-> None, conf_kind |-> "absent", confidence |-> 0]

Scored(v, c) == [shape |-> "dict", value |-> v, conf_kind |-> "number", confidence |-> c]

NoConfidence(v) == [shape |-> "dict", value |-> v, conf_kind |-> "absent", confidence |-> 0]

TextConfidence(v) == [shape |-> "dict", value |-> v, conf_kind |-> "text", confidence |-> 0]

Bare(v) == [shape |-> "bare", value |-> v, conf_kind |-> "absent", confidence |-> 0]

AllNull == [f \in FieldSet |-> NullEntry]

\* what call_llm_extract hands back: None, a JSON scalar, or a list whose
\* first element is an object, an empty object or something else
LlmNone == [kind |-> "None", first |-> "none", obj |-> AllNull]

LlmScalar == [kind |-> "scalar", first |-> "none", obj |-> AllNull]

LlmEmptyList == [kind |-> "list", first |-> "none", obj |-> AllNull]

LlmListOfOther == [kind |-> "list", first |-> "other", obj |-> AllNull]

LlmEmptyDict == [kind |-> "list", first |-> "emptydict", obj |-> AllNull]

LlmDict(obj) == [kind |-> "list", first |-> "dict", obj |-> obj]

(***************************************************************************)
(* Merge of parse._process.                                                *)
(***************************************************************************)
\* llm_result = llm_out[0] when llm_out is a non-empty list, else None
HasLlmResult(llm_out) == llm_out.kind = "list" /\ llm_out.first # "none"

\* if llm_result and isinstance(llm_result, dict)
UsesMerge(llm_out) == HasLlmResult(llm_out) /\ llm_out.first = "dict"

\* float(llm_field.get('confidence') or 0.0)
FloatRaises(llm_field) == llm_field.shape = "dict" /\ llm_field.conf_kind = "text"

FloatConf(llm_field) ==
    IF llm_field.conf_kind = "number" THEN llm_field.confidence ELSE 0

AcceptsLoose(conf, threshold) == conf > threshold

Accepts(conf, threshold) == conf >= threshold

Chosen(local_val, llm_field) ==
    IF llm_field.shape = "dict"
    THEN IF Accepts(FloatConf(llm_field), CONF_THRESHOLD) /\ llm_field.value # None
         THEN llm_field.value
         ELSE local_val
    ELSE IF llm_field.shape = "bare"
         THEN llm_field.value
         ELSE local_val

MergeRaises(llm_result) == \E f \in FieldSet : FloatRaises(llm_result[f])

Merged(parsed, llm_result) ==
    [f \in FieldSet |-> Chosen(parsed[f], llm_result[f])]

ErrorRecordUnflagged(filename) == AllNone

ErrorRecord(filename) ==
    [f \in FieldSet |-> IF f = "full_name" THEN "Error: " \o filename ELSE None]

\* the names a failed record can carry: 'Error: ' + file_storage.filename
ErrorNames == { "Error: resume" \o ToString(d) : d \in 0..MaxFiles }

\* d.full_name?.startsWith('Error:'), over the values a full_name takes here
StartsWithError(full_name) == full_name \in ErrorNames

\* a failed record: the marker, and every other field unknown
IsErrorRecord(rec) ==
    /\ StartsWithError(rec["full_name"])
    /\ \A f \in FieldSet \ {"full_name"} : rec[f] = None

\* the part of _process after the model call: which record is stored
PostCallFaults(llm_out) == UsesMerge(llm_out) /\ MergeRaises(llm_out.obj)

PostCallRecord(parsed, llm_out) ==
    IF UsesMerge(llm_out) THEN Merged(parsed, llm_out.obj) ELSE parsed

(***************************************************************************)
(* State of one request to parse().                                        *)
(***************************************************************************)
VARIABLES
    files,            \* the uploaded files, in input order (0-based)
    batch_size,       \* PARSE_BATCH_SIZE
    workers,          \* PARSE_WORKERS
    llm_concurrency,  \* PARSE_LLM_CONCURRENCY
    llm_available,    \* call_llm_extract is not None
    start,            \* loop variable of the chunk loop
    main,             \* position of the request thread
    pc,               \* position of the task of each file
    task_idx,         \* idx passed to _process for each file
    content,          \* local: what read_file_content returned
    llm_out,          \* local: what call_llm_extract returned
    timed_out,        \* local: acquire returned False
    queries,          \* number of model calls made for each file
    llm_sema,         \* permits left in llm_sema
    results,          \* the result list
    written,          \* history: per index, the files whose task wrote it
    out_of_order,     \* history: a task finished before one submitted earlier
    response,         \* the list handed to jsonify
    m_parsed,         \* one merge on its own: the rule-engine result
    m_llm_out,        \*   what the model call returned
    m_record,         \*   the record stored
    m_faulted,        \*   the except branch stored it
    m_done,           \*   the merge has run
    u_in,             \* one call of a function on its own: its input
    u_out,            \*   what it returned
    u_done            \*   it has run

configVars == << files, batch_size, workers, llm_concurrency, llm_available >>

mergeVars == << m_parsed, m_llm_out, m_record, m_faulted, m_done >>

batchVars ==
    << configVars, start, main, pc, task_idx, content, llm_out, timed_out, queries,
       llm_sema, results, written, out_of_order, response >>

unitVars == << u_in, u_out, u_done >>

vars == << batchVars, mergeVars, unitVars >>

total == Cardinality(DOMAIN files)

Docs == 0..(total - 1)

\* results = [None] * len(files): a slot holding None
EmptySlot == [f \in FieldSet |-> "<empty>"]

NoOutput == [kind |-> "not called", first |-> "none", obj |-> AllNull]

\* documents met in a batch: unreadable, sparse (4 fields unknown), complete
BatchContents == { NoContent, Text(Prefix(6)), Text(FieldSet) }

\* model answers met in a batch
BatchOutputs ==
    { LlmNone,
      LlmDict([f \in FieldSet |-> Scored("llm", 95)]),
      LlmDict([f \in FieldSet |-> Scored("llm", 79)]),
      LlmDict([f \in FieldSet |-> IF f = "email" THEN TextConfidence("llm") ELSE NullEntry]) }

\* batch = files[start:start+batch_size]
Batch(s) == { d \in Docs : s <= d /\ d < s + batch_size }

IdxNoStart(s, idx_offset) == idx_offset

\* idx = start + idx_offset
Idx(s, idx_offset) == s + idx_offset

Running == { d \in Docs : pc[d] \in {"running", "acquire", "calling"} }

InFlight == { d \in Docs : pc[d] = "calling" }

NoWait(s) == TRUE

\* concurrent.futures.wait(futures) and the executor's shutdown on leaving `with`
ChunkDrained(s) == \A d \in Batch(s) : pc[d] = "done"

AlwaysAcquire(sema) == TRUE

\* llm_sema.acquire(timeout=30) returns True
CanAcquire(sema) == sema > 0

\* an acquire without timeout: the wait never ends by itself
NeverTimesOut(sema) == FALSE

\* llm_sema.acquire(timeout=30) returns False: the wait ends with no permit
CanTimeOut(sema) == sema = 0

TimeoutRecordFailed(parsed, filename) == ErrorRecord(filename)

\* not acquired: llm_result stays None and results[idx] = parsed
TimeoutRecord(parsed, filename) == parsed

ResultsFaultDropped(res, idx, filename) == res

\* except Exception: results[idx] = {...}
ResultsAfterFault(res, idx, filename) ==
    [res EXCEPT ![idx] = ErrorRecord(filename)]

RequeryWhileUnknown(rec, n) == IF UnknownCount(rec) >= 4 THEN "acquire" ELSE "done"

\* _process returns after storing the record
AfterStore(rec, n) == "done"

\* results[idx] = rec, and the task goes to position next
Store(d, rec, next) ==
    /\ results' = [results EXCEPT ![task_idx[d]] = rec]
    /\ written' = [written EXCEPT ![task_idx[d]] = Append(@, d)]
    /\ pc' = [pc EXCEPT ![d] = next]
    /\ out_of_order' = (out_of_order \/ \E e \in Docs : e < d /\ pc[e] # "done")

StoreFault(d) ==
    /\ results' = ResultsAfterFault(results, task_idx[d], files[d].filename)
    /\ written' = [written EXCEPT ![task_idx[d]] =
                      IF results'[task_idx[d]] = results[task_idx[d]] THEN @ ELSE Append(@, d)]
    /\ pc' = [pc EXCEPT ![d] = "done"]
    /\ out_of_order' = (out_of_order \/ \E e \in Docs : e < d /\ pc[e] # "done")

NoRequest ==
    /\ files = << >>
    /\ batch_size = 1
    /\ workers = 1
    /\ llm_concurrency = 0
    /\ llm_available = FALSE
    /\ start = 0
    /\ main = "loop"
    /\ pc = << >>
    /\ task_idx = << >>
    /\ content = << >>
    /\ llm_out = << >>
    /\ timed_out = << >>
    /\ queries = << >>
    /\ llm_sema = 0
    /\ results = << >>
    /\ written = << >>
    /\ out_of_order = FALSE
    /\ response = << >>

NoMerge ==
    /\ m_parsed = AllNone
    /\ m_llm_out = NoOutput
    /\ m_record = EmptySlot
    /\ m_faulted = FALSE
    /\ m_done = FALSE

NoUnit ==
    /\ u_in = << >>
    /\ u_out = << >>
    /\ u_done = FALSE

Init ==
    /\ \E n \in 1..MaxFiles :
          files = [d \in 0..(n - 1) |-> [filename |-> "resume" \o ToString(d)]]
    /\ batch_size \in 1..MaxBatchSize
    /\ workers \in 1..MaxWorkers
    /\ llm_concurrency \in 0..MaxLlmConcurrency
    /\ llm_available \in BOOLEAN
    /\ start = 0
    /\ main = "loop"
    /\ pc = [d \in Docs |-> "unsubmitted"]
    /\ task_idx = [d \in Docs |-> -1]
    /\ content = [d \in Docs |-> NoContent]
    /\ llm_out = [d \in Docs |-> NoOutput]
    /\ timed_out = [d \in Docs |-> FALSE]
    /\ queries = [d \in Docs |-> 0]
    /\ llm_sema = llm_concurrency
    /\ results = [i \in Docs |-> EmptySlot]
    /\ written = [i \in Docs |-> << >>]
    /\ out_of_order = FALSE
    /\ response = << >>
    /\ NoMerge
    /\ NoUnit

\* for start in range(0, total, batch_size): submit the chunk's tasks
SubmitChunk ==
    /\ main = "loop"
    /\ start < total
    /\ main' = "wait"
    /\ pc' = [d \in Docs |-> IF d \in Batch(start) THEN "queued" ELSE pc[d]]
    /\ task_idx' = [d \in Docs |-> IF d \in Batch(start) THEN Idx(start, d - start) ELSE task_idx[d]]
    /\ UNCHANGED << configVars, start, content, llm_out, timed_out, queries, llm_sema,
                    results, written, out_of_order, response, mergeVars, unitVars >>

\* a pool thread takes the oldest queued task
StartTask(d) ==
    /\ pc[d] = "queued"
    /\ \A e \in Docs : pc[e] = "queued" => d <= e
    /\ Cardinality(Running) < workers
    /\ pc' = [pc EXCEPT ![d] = "running"]
    /\ UNCHANGED << configVars, start, main, task_idx, content, llm_out, timed_out,
                    queries, llm_sema, results, written, out_of_order, response,
                    mergeVars, unitVars >>

\* content = read_file_content(file_storage); parsed = parse_resume_text(content)
ReadAndParse(d, c) ==
    /\ pc[d] = "running"
    /\ content' = [content EXCEPT ![d] = c]
    /\ IF ParseRaises(c)
       THEN StoreFault(d)
       ELSE IF llm_available
            THEN /\ pc' = [pc EXCEPT ![d] = "acquire"]
                 /\ UNCHANGED << results, written, out_of_order >>
            ELSE Store(d, parse_resume_text(c), AfterStore(parse_resume_text(c), queries[d]))
    /\ UNCHANGED << configVars, start, main, task_idx, llm_out, timed_out, queries,
                    llm_sema, response, mergeVars, unitVars >>

\* acquired = llm_sema.acquire(timeout=30), acquired: the model call starts
Acquire(d) ==
    /\ pc[d] = "acquire"
    /\ queries[d] < MaxQueries
    /\ CanAcquire(llm_sema)
    /\ llm_sema' = llm_sema - 1
    /\ queries' = [queries EXCEPT ![d] = @ + 1]
    /\ pc' = [pc EXCEPT ![d] = "calling"]
    /\ UNCHANGED << configVars, start, main, task_idx, content, llm_out, timed_out,
                    results, written, out_of_order, response, mergeVars, unitVars >>

\* acquired = llm_sema.acquire(timeout=30), not acquired
AcquireTimeout(d) ==
    /\ pc[d] = "acquire"
    /\ CanTimeOut(llm_sema)
    /\ timed_out' = [timed_out EXCEPT ![d] = TRUE]
    /\ Store(d, TimeoutRecord(parse_resume_text(content[d]), files[d].filename), "done")
    /\ UNCHANGED << configVars, start, main, task_idx, content, llm_out, queries,
                    llm_sema, response, mergeVars, unitVars >>

\* a call that ends without giving its slot back
NoRelease(sema) == sema

\* finally: llm_sema.release()
Release(sema) == sema + 1

\* call_llm_extract returns out; finally: llm_sema.release(); merge; store
CallReturns(d, out) ==
    /\ pc[d] = "calling"
    /\ llm_sema' = Release(llm_sema)
    /\ llm_out' = [llm_out EXCEPT ![d] = out]
    /\ IF PostCallFaults(out)
       THEN StoreFault(d)
       ELSE Store(d, PostCallRecord(parse_resume_text(content[d]), out),
                  AfterStore(PostCallRecord(parse_resume_text(content[d]), out), queries[d]))
    /\ UNCHANGED << configVars, start, main, task_idx, content, timed_out, queries,
                    response, mergeVars, unitVars >>

\* the chunk's futures are done and its executor is shut down: next chunk
WaitDone ==
    /\ main = "wait"
    /\ ChunkDrained(start)
    /\ start' = start + batch_size
    /\ main' = "loop"
    /\ UNCHANGED << configVars, pc, task_idx, content, llm_out, timed_out, queries,
                    llm_sema, results, written, out_of_order, response, mergeVars, unitVars >>

\* return jsonify({'results': results})
Return ==
    /\ main = "loop"
    /\ start >= total
    /\ main' = "returned"
    /\ response' = [i \in 1..total |-> results[i - 1]]
    /\ UNCHANGED << configVars, start, pc, task_idx, content, llm_out, timed_out,
                    queries, llm_sema, results, written, out_of_order, mergeVars, unitVars >>

Next ==
    \/ SubmitChunk
    \/ \E d \in Docs : StartTask(d)
    \/ \E d \in Docs : \E c \in BatchContents : ReadAndParse(d, c)
    \/ \E d \in Docs : Acquire(d)
    \/ \E d \in Docs : AcquireTimeout(d)
    \/ \E d \in Docs : \E out \in BatchOutputs : CallReturns(d, out)
    \/ WaitDone
    \/ Return

Spec == Init /\ [][Next]_vars

(***************************************************************************)
(* One run of the part of _process that follows the model call, on its     *)
(* own, over every shape of rule-engine result and model answer.           *)
(***************************************************************************)
MergeContents ==
    { Text(Prefix(k)) : k \in 0..Len(fields) } \cup { Text(Suffix(k)) : k \in 0..Len(fields) }

Confidences == {0, 79, 80, 81, 100}

Entries ==
    { NullEntry, Bare("llm"), NoConfidence("llm"), TextConfidence("llm") }
        \cup { Scored(v, c) : v \in {"llm", None}, c \in Confidences }

OtherEntries == { NullEntry, Scored("llm", 79), Scored("llm", 95) }

\* fields whose rule-engine extractor checks a range or a format
ValidatedFields == {"email", "phone_number", "alternate_phone_number", "years_of_experience"}

\* a model value that the rule engine's check for the field would reject:
\* an upper-case address, a 3-digit phone, a career of 120 years
BadValue(f) ==
    IF f = "email" THEN "John@Example.COM"
    ELSE IF f = "years_of_experience" THEN "120"
    ELSE "555"

\* answers whose entry for one field is a scored value the model made up
UncheckedOutputs ==
    { LlmDict([g \in FieldSet |-> IF g = f THEN Scored(BadValue(f), c) ELSE o]) :
          f \in ValidatedFields, c \in {79, 95}, o \in OtherEntries }
        \cup { LlmDict([g \in FieldSet |-> IF g = "full_name" THEN Scored(n, c) ELSE NullEntry]) :
                  n \in ErrorNames, c \in {79, 95} }

MergeOutputs ==
    { LlmNone, LlmScalar, LlmEmptyList, LlmListOfOther, LlmEmptyDict }
        \cup { LlmDict([g \in FieldSet |-> IF g = f THEN e ELSE o]) :
                  f \in FieldSet, e \in Entries, o \in OtherEntries }
        \cup UncheckedOutputs

MergeInit ==
    /\ NoRequest
    /\ NoUnit
    /\ m_parsed \in { parse_resume_text(c) : c \in MergeContents }
    /\ m_llm_out \in MergeOutputs
    /\ m_record = EmptySlot
    /\ m_faulted = FALSE
    /\ m_done = FALSE

ApplyMerge ==
    /\ ~m_done
    /\ m_done' = TRUE
    /\ m_faulted' = PostCallFaults(m_llm_out)
    /\ m_record' = IF PostCallFaults(m_llm_out)
                   THEN ResultsAfterFault(<< EmptySlot >>, 1, "resume0")[1]
                   ELSE PostCallRecord(m_parsed, m_llm_out)
    /\ UNCHANGED << batchVars, m_parsed, m_llm_out, unitVars >>

MergeNext == ApplyMerge

MergeSpec == MergeInit /\ [][MergeNext]_vars

(***************************************************************************)
(* Properties of the batch (checked under Spec).                           *)
(***************************************************************************)
\* the position of a file's chunk, from the file's position alone
ChunkOf(d) == d \div batch_size

\* a fault was raised while file d was processed: the rule engine raised on
\* its content, or the merge raised on the model's answer for it
Faulted(d) == ParseRaises(content[d]) \/ PostCallFaults(llm_out[d])

\* the record file d gets when it is processed on its own
OwnRecord(d) ==
    IF Faulted(d)
    THEN ErrorRecord(files[d].filename)
    ELSE PostCallRecord(parse_resume_text(content[d]), llm_out[d])

\* C1: when the batch returns, position i of the returned list holds the
\* record produced for the i-th submitted file (stored by that file's task,
\* and equal to the record that file's own content and model answer give),
\* whatever the order in which the tasks finished.
C1_OrderPreserved ==
    main = "returned" =>
        /\ Len(response) = total
        /\ \A d \in Docs :
              /\ written[d] # << >>
              /\ written[d][Len(written[d])] = d
              /\ response[d + 1] = OwnRecord(d)

\* three files, a pool wider than 1, a task finished before an earlier one
C1_Witness ==
    /\ main = "returned"
    /\ total >= 3
    /\ workers > 1
    /\ out_of_order
    /\ \A d \in Docs : ~Faulted(d)

\* C2: a fault raised while one file is processed gives an error-flagged
\* record at that file's index and nowhere else; every other file gets the
\* record its own content and model answer give; and a fault never leaves
\* the request unable to go on to its return.
C2_FailureIsolation ==
    /\ main = "returned" =>
          \A d \in Docs :
              IF Faulted(d)
              THEN IsErrorRecord(response[d + 1])
              ELSE /\ ~IsErrorRecord(response[d + 1])
                   /\ response[d + 1] = PostCallRecord(parse_resume_text(content[d]), llm_out[d])
    /\ main # "returned" => ENABLED Next

\* the middle file of three is unreadable, its neighbours are parsed
C2_Witness ==
    /\ main = "returned"
    /\ total >= 3
    /\ ParseRaises(content[1])
    /\ IsErrorRecord(response[2])
    /\ ~Faulted(0) /\ UnknownCount(response[1]) = 0
    /\ ~Faulted(2) /\ UnknownCount(response[3]) = 0

\* C3: no index is ever written twice, an index is written only by the task
\* of the file at that position, and when the batch returns every index has
\* been written (exactly once) and holds a record.
C3_OneRecordPerDocument ==
    /\ \A i \in Docs : Len(written[i]) <= 1 /\ (written[i] # << >> => written[i][1] = i)
    /\ main = "returned" =>
          /\ Len(response) = total
          /\ \A i \in Docs : written[i] = << i >> /\ response[i + 1] # EmptySlot

\* more files than one chunk holds, a faulted file among them
C3_Witness ==
    /\ main = "returned"
    /\ total > batch_size
    /\ workers > 1
    /\ \E d \in Docs : Faulted(d)
    /\ \E d \in Docs : timed_out[d]

\* C6: the number of model calls in flight never exceeds llm_concurrency,
\* whatever the pool width.
C6_ModelCallsBounded == Cardinality(InFlight) <= llm_concurrency

\* the limit is reached while another worker of a wider pool wants a call
C6_Witness ==
    /\ llm_concurrency >= 1
    /\ workers > llm_concurrency
    /\ Cardinality(InFlight) = llm_concurrency
    /\ \E d \in Docs : pc[d] = "acquire"

\* C7: a file whose acquire timed out made no model call, is done, and its
\* record is its rule-engine output, not an error record.
C7_TimeoutUsesRules ==
    \A d \in Docs :
        timed_out[d] =>
            /\ queries[d] = 0
            /\ llm_out[d] = NoOutput
            /\ pc[d] = "done"
            /\ results[d] = parse_resume_text(content[d])
            /\ ~IsErrorRecord(results[d])

\* a timeout caused by contention (the limit is not 0), batch returned
C7_Witness ==
    /\ main = "returned"
    /\ llm_concurrency >= 1
    /\ \E d \in Docs : timed_out[d] /\ UnknownCount(response[d + 1]) = 4

\* C8 (as claimed): a file for which the model was consulted and whose record
\* after the first merge has four or more unknown fields gets a second model
\* query, exactly one.
C8_EscalationFiresOnce ==
    \A d \in Docs :
        ( /\ pc[d] = "done"
          /\ llm_available
          /\ UsesMerge(llm_out[d])
          /\ ~Faulted(d)
          /\ UnknownCount(results[d]) >= 4 ) => queries[d] = 2

\* C9: no file is ever the subject of more than two model calls.
C9_AtMostTwoQueries == \A d \in Docs : queries[d] <= 2

\* a consulted file that is done with four fields still unknown
C9_Witness ==
    \E d \in Docs :
        /\ pc[d] = "done"
        /\ queries[d] = 1
        /\ UsesMerge(llm_out[d])
        /\ UnknownCount(results[d]) = 4
        /\ main = "returned"

\* C10: a file of a later chunk is picked up by a worker only after every
\* file of every earlier chunk is done and has its record stored.
C10_ChunkByChunk ==
    \A d \in Docs : \A e \in Docs :
        (ChunkOf(d) < ChunkOf(e) /\ pc[e] \in {"running", "acquire", "calling", "done"}) =>
            (pc[d] = "done" /\ written[d] # << >> /\ results[d] # EmptySlot)

\* a batch larger than the chunk size, second chunk being processed
C10_Witness ==
    /\ batch_size >= 2
    /\ total > batch_size
    /\ \E e \in Docs : ChunkOf(e) = 1 /\ pc[e] = "calling"

(***************************************************************************)
(* Properties of the merge (checked under MergeSpec).                      *)
(***************************************************************************)
\* the model's entry for field f, when the merge looks at one
ModelEntry(f) == m_llm_out.obj[f]

IsScored(e) == e.shape = "dict" /\ e.conf_kind = "number"

C5_OnlyQualifiedOverrides ==
    (m_done /\ ~m_faulted) =>
        \A f \in FieldSet :
            m_record[f] # m_parsed[f] =>
                /\ UsesMerge(m_llm_out)
                /\ IsScored(ModelEntry(f))
                /\ ModelEntry(f).value # None
                /\ ModelEntry(f).confidence >= CONF_THRESHOLD

(***************************************************************************)
(* Properties of the record a document ends with.                          *)
(***************************************************************************)
\* the model's entry for f is missing, null or a dict without a usable
\* numeric confidence
MalformedEntry(e) == e.shape = "null" \/ (e.shape = "dict" /\ e.conf_kind # "number")

\* C11 (as claimed): whatever the model call returned, the document is not
\* turned into a failed record; an answer that is not a list holding an
\* object leaves the rule-engine output as the record, and so does, field by
\* field, an entry that is missing or has no numeric confidence.
C11_ModelFailureAbsorbed ==
    m_done =>
        /\ ~m_faulted
        /\ ~UsesMerge(m_llm_out) => m_record = m_parsed
        /\ UsesMerge(m_llm_out) =>
              \A f \in FieldSet : MalformedEntry(ModelEntry(f)) => m_record[f] = m_parsed[f]

\* the values of field f that passed f's validation: what the rule engine
\* returns, and a model value of the same form
Validated(f, v) == v \in {None, "rule", "llm"}

\* C12 (as claimed): every field of a record that is not a failed record is
\* unknown or a value that passed the field's validation.
C12_OnlyValidatedValues ==
    (m_done /\ ~m_faulted) => \A f \in FieldSet : Validated(f, m_record[f])

\* C13 (as claimed): a failed record carries the failure marker and a record
\* that is not failed never looks like one.
C13_FailedDistinguishable ==
    m_done =>
        /\ m_faulted => IsErrorRecord(m_record)
        /\ ~m_faulted => ~IsErrorRecord(m_record)

\* C14 (as claimed): a file whose text extraction yields nothing ends, in the
\* batch path, with the rule engine's all-unknown record, no exception
\* having been raised for it.
C14_UnreadableIsAllUnknown ==
    \A d \in Docs :
        (pc[d] = "done" /\ content[d].is_none) =>
            (results[d] = AllNone /\ ~IsErrorRecord(results[d]))

(***************************************************************************)
(* call_llm_extract: the key lookup, the HTTP exchange and the decoding of  *)
(* the model's answer.  The input is the caller's key argument, what the   *)
(* key store and the environment hold, and the response of the endpoint.   *)
(***************************************************************************)
\* get_stored_api_key is missing (import failed), raises, or returns
StoredKeys == {"no getter", "raises", None, "stored-key"}
ArgKeys == {None, "arg-key"}
EnvKeys == {None, "env-key"}

\* client.post raises, the status is not a success, or the exchange succeeds
Transports == {"error", "status", "ok"}
\* r.json(): not JSON, a JSON array, a JSON object
Bodies == {"invalid", "array", "object"}
\* the assistant content found in the body: none, the empty string, a first
\* choice that is not an object, a content that is not a string, a string
Contents == {"missing", "empty", "bad choice", "number", "text"}
\* the string is bare, in a plain code fence, or in a fence tagged json
Fences == {"none", "plain", "tagged"}
\* what the string, fence removed, is as JSON
Payloads == {"invalid", "null", "scalar", "object", "list0", "list1", "list2", "scalars"}

CallInputs ==
    [api_key : ArgKeys, stored : StoredKeys, env : EnvKeys, transport : Transports,
     body : Bodies, content : Contents, fence : Fences, payload : Payloads]

\* values call_llm_extract can hand back
RNone == [kind |-> "None", elems |-> "none", len |-> 0]
RScalar == [kind |-> "scalar", elems |-> "none", len |-> 0]
RList(elems, n) == [kind |-> "list", elems |-> elems, len |-> n]

\* the key the request is sent with, None when there is none
ResolveKey(in) ==
    IF in.api_key # None THEN in.api_key
    ELSE IF in.stored = "stored-key" THEN in.stored
    ELSE in.env

\* r.raise_for_status() raises on a non-success status
RaisesForStatus(in) == in.transport = "status"

\* an exception is raised inside the try block
RaisesInTry(in) ==
    \/ in.transport = "error"
    \/ RaisesForStatus(in)
    \/ in.body = "invalid"
    \/ in.body = "array"
    \/ in.content \in {"bad choice", "number"}
    \/ /\ in.content = "text"
       /\ in.fence = "tagged" \/ in.payload = "invalid"

\* json.loads(content) and the normalisation that follows it
Decoded(payload) ==
    CASE payload = "null" -> RNone
      [] payload = "scalar" -> RScalar
      [] payload = "object" -> RList("objects", 1)
      [] payload = "list0" -> RList("none", 0)
      [] payload = "list1" -> RList("objects", 1)
      [] payload = "list2" -> RList("objects", 2)
      [] payload = "scalars" -> RList("other", 2)

\* how a block of code ends: it returns a value or an exception leaves it
Returned(v) == [result |-> v, raised |-> FALSE]
Raised == [result |-> RNone, raised |-> TRUE]

\* the body of the try block: the exchange, the content lookup, the decoding
TryBody(in) ==
    IF RaisesInTry(in) THEN Raised
    ELSE IF in.content \in {"missing", "empty"} THEN Returned(RNone)
    ELSE Returned(Decoded(in.payload))

\* a try block without handler: the exception leaves the function
ExceptReraises(outcome) == outcome

\* except Exception: return None
ExceptReturnsNone(outcome) == IF outcome.raised THEN Returned(RNone) ELSE outcome

\* result, whether an exception leaves the function, whether a request was sent
call_llm_extract(in) ==
    IF ResolveKey(in) = None
    THEN [result |-> RNone, raised |-> FALSE, network |-> FALSE]
    ELSE [result |-> ExceptReturnsNone(TryBody(in)).result,
          raised |-> ExceptReturnsNone(TryBody(in)).raised,
          network |-> TRUE]

\* the orchestrator takes the first element of a non-empty list and merges
\* it when it is an object
CallerUses(result) == result.kind = "list" /\ result.len > 0 /\ result.elems = "objects"

CallInit ==
    /\ NoRequest
    /\ NoMerge
    /\ u_in \in CallInputs
    /\ u_out = << >>
    /\ u_done = FALSE

ApplyCall ==
    /\ ~u_done
    /\ u_out' = call_llm_extract(u_in)
    /\ u_done' = TRUE
    /\ UNCHANGED << batchVars, mergeVars, u_in >>

CallNext == ApplyCall

CallSpec == CallInit /\ [][CallNext]_vars

\* one of the failures the call has to absorb happened
CallFailed(in) ==
    \/ in.transport \in {"error", "status"}
    \/ in.body = "invalid"
    \/ in.content \in {"missing", "empty"}
    \/ in.content = "text" /\ in.payload = "invalid"

\* C15: call_llm_extract never raises; a transport error, a non-success
\* status, a body or an answer that is not JSON, or a missing content gives
\* None; without any key it gives None and sends no request.
C15_CallNeverRaises ==
    u_done =>
        /\ ~u_out.raised
        /\ CallFailed(u_in) => u_out.result = RNone
        /\ ResolveKey(u_in) = None => (u_out.result = RNone /\ ~u_out.network)

C15_Witness ==
    /\ u_done
    /\ u_in.stored = "raises"
    /\ u_in.api_key = None
    /\ u_in.env = "env-key"
    /\ u_in.transport = "status"
    /\ u_in.payload = "list1"
    /\ u_out.network
    /\ u_out.result = RNone

\* C16 (as claimed): the call returns None or a list of one object, and the
\* orchestrator uses no answer that was not a list of one object.
C16_NoneOrListOfOneObject ==
    u_done =>
        /\ u_out.result \in {RNone, RList("objects", 1)}
        /\ CallerUses(u_out.result) => u_out.result = RList("objects", 1)

(***************************************************************************)
(* clean_text.  A text is a sequence of characters; the alphabet has two   *)
(* letters, the blank and the two line-ending characters.                  *)
(***************************************************************************)
MaxLen == 5

Chars == {"a", "b", " ", "\n", "\r"}

RECURSIVE TextsOfLen(_)
TextsOfLen(n) ==
    IF n = 0 THEN { << >> }
    ELSE { Append(t, c) : t \in TextsOfLen(n - 1), c \in Chars }

\* the texts of at most max characters
Texts(max) == UNION { TextsOfLen(n) : n \in 0..max }

\* str.isspace for the characters of the alphabet
IsSpace(c) == c \in {" ", "\n", "\r"}

\* text.replace('\r\n', '\n').replace('\r', '\n')
RECURSIVE ReplaceCRLF(_)
ReplaceCRLF(t) ==
    IF t = << >> THEN << >>
    ELSE IF Len(t) >= 2 /\ t[1] = "\r" /\ t[2] = "\n"
    THEN << "\n" >> \o ReplaceCRLF(SubSeq(t, 3, Len(t)))
    ELSE << t[1] >> \o ReplaceCRLF(Tail(t))

ReplaceCR(t) == [i \in DOMAIN t |-> IF t[i] = "\r" THEN "\n" ELSE t[i]]

NormalizeLineEndings(t) == ReplaceCR(ReplaceCRLF(t))

\* text.split('\n'): one more line than there are newlines
RECURSIVE SplitLines(_)
SplitLines(t) ==
    IF \A i \in DOMAIN t : t[i] # "\n" THEN << t >>
    ELSE LET k == CHOOSE i \in DOMAIN t :
                      t[i] = "\n" /\ \A j \in 1..(i - 1) : t[j] # "\n"
         IN << SubSeq(t, 1, k - 1) >> \o SplitLines(SubSeq(t, k + 1, Len(t)))

\* str.strip()
RECURSIVE LStrip(_)
LStrip(t) == IF t # << >> /\ IsSpace(t[1]) THEN LStrip(Tail(t)) ELSE t

RECURSIVE RStrip(_)
RStrip(t) ==
    IF t # << >> /\ IsSpace(t[Len(t)]) THEN RStrip(SubSeq(t, 1, Len(t) - 1)) ELSE t

Strip(t) == RStrip(LStrip(t))

\* ' '.join(stripped.split()): every run of whitespace becomes one blank
RECURSIVE CollapseSpaces(_)
CollapseSpaces(t) ==
    IF t = << >> THEN << >>
    ELSE IF IsSpace(t[1])
    THEN << " " >> \o CollapseSpaces(LStrip(t))
    ELSE << t[1] >> \o CollapseSpaces(Tail(t))

\* the first loop: strip each line, keep one blank line of a run
RECURSIVE CleanLines(_, _)
CleanLines(lines, prev_empty) ==
    IF lines = << >> THEN << >>
    ELSE LET stripped == Strip(Head(lines))
         IN  IF stripped = << >>
             THEN (IF prev_empty THEN << >> ELSE << << >> >>)
                      \o CleanLines(Tail(lines), TRUE)
             ELSE << CollapseSpaces(stripped) >> \o CleanLines(Tail(lines), FALSE)

\* the second loop without its comparison: every line is kept
KeepLines(lines) == lines

\* the second loop: drop a line equal to the line kept before it
RECURSIVE UniqueLines(_)
UniqueLines(lines) ==
    IF Len(lines) <= 1 THEN lines
    ELSE LET front == UniqueLines(SubSeq(lines, 1, Len(lines) - 1))
         IN  IF front[Len(front)] # lines[Len(lines)]
             THEN Append(front, lines[Len(lines)])
             ELSE front

\* '\n'.join(lines)
RECURSIVE JoinLines(_)
JoinLines(lines) ==
    IF lines = << >> THEN << >>
    ELSE IF Len(lines) = 1 THEN lines[1]
    ELSE lines[1] \o << "\n" >> \o JoinLines(Tail(lines))

clean_text(text) ==
    IF text = << >> THEN << >>
    ELSE Strip(JoinLines(UniqueLines(
             CleanLines(SplitLines(NormalizeLineEndings(text)), FALSE))))

CleanInit ==
    /\ NoRequest
    /\ NoMerge
    /\ u_in \in Texts(MaxLen)
    /\ u_out = << >>
    /\ u_done = FALSE

ApplyClean ==
    /\ ~u_done
    /\ u_out' = clean_text(u_in)
    /\ u_done' = TRUE
    /\ UNCHANGED << batchVars, mergeVars, u_in >>

CleanNext == ApplyClean

CleanSpec == CleanInit /\ [][CleanNext]_vars

\* no carriage return, no blank at either end of a line, no two blanks in a
\* row, no blank line at either end, no two blank lines in a row, no line
\* equal to the line before it
IsClean(t) ==
    /\ \A i \in DOMAIN t : t[i] # "\r"
    /\ t # << >> => (~IsSpace(t[1]) /\ ~IsSpace(t[Len(t)]))
    /\ \A i \in 1..(Len(t) - 1) :
          /\ ~(t[i] = " " /\ IsSpace(t[i + 1]))
          /\ ~(t[i] = "\n" /\ t[i + 1] = " ")
    /\ \A i \in 1..(Len(t) - 2) : ~(t[i] = "\n" /\ t[i + 1] = "\n" /\ t[i + 2] = "\n")
    /\ \A i \in 1..(Len(SplitLines(t)) - 1) : SplitLines(t)[i] # SplitLines(t)[i + 1]

\* C17: clean_text is idempotent, and its output has no two equal lines in
\* a row, no two blank lines in a row, no blank line at either end and no
\* line with a blank at either end or two blanks in a row.
C17_CleanIdempotent ==
    u_done => (clean_text(u_out) = u_out /\ IsClean(u_out))

C17_Witness ==
    /\ u_done
    /\ u_in = << "a", " ", "\r", "\n", "a" >>
    /\ u_out = << "a" >>

(***************************************************************************)
(* extract_text: the handler chosen by the extension, then the binary      *)
(* fallback over the bytes of the file.                                    *)
(***************************************************************************)
MaxRaw == 3

\* the decoded bytes of the file
RawTexts == Texts(MaxRaw)

\* what the handler does: it raises, or returns the text it could extract
Raising == << "raises" >>
HandlerOutcomes ==
    { Raising, << >>, << " ", "\n" >>, << "a", " ", " ", "b" >>, << "a", "\n", "b" >> }

ExtractInputs == [exists : BOOLEAN, handler : HandlerOutcomes, raw : RawTexts]

\* c.isprintable() or c in '\n\t'
IsPrintable(c) == c # "\r"

\* the readable characters of the file, "" when there are only blanks
extract_binary_fallback(raw) ==
    LET text == SelectSeq(raw, IsPrintable)
    IN  IF Strip(text) # << >> THEN text ELSE << >>

extract_text(file) ==
    IF ~file.exists THEN << >>
    ELSE IF file.handler = Raising THEN << >>
    ELSE IF Strip(file.handler) # << >> THEN clean_text(file.handler)
    ELSE extract_binary_fallback(file.raw)

ExtractInit ==
    /\ NoRequest
    /\ NoMerge
    /\ u_in \in ExtractInputs
    /\ u_out = << >>
    /\ u_done = FALSE

ApplyExtract ==
    /\ ~u_done
    /\ u_out' = extract_text(u_in)
    /\ u_done' = TRUE
    /\ UNCHANGED << batchVars, mergeVars, u_in >>

ExtractNext == ApplyExtract

ExtractSpec == ExtractInit /\ [][ExtractNext]_vars

\* C18 (as claimed): a non-empty text returned by extract_text is a fixed
\* point of clean_text, whichever handler or fallback produced it.
C18_ExtractedIsClean ==
    (u_done /\ u_out # << >>) => clean_text(u_out) = u_out

(***************************************************************************)
(* extract_phone.  The input is the list of matches the two loops visit:   *)
(* the matches of the first pattern, then those of the second, and so on.  *)
(* A match is the matched string, character by character.  The third       *)
(* pattern (10 or 11 digits in a row) is left out: every string it matches *)
(* holds a match of the second pattern, which is visited first and taken.  *)
(***************************************************************************)
MaxDigits == 16
MaxMatches == 2

\* the validation range of extract_phone
MinPhoneDigits == 10
MaxPhoneDigits == 15

DigitChars == << "1", "2", "3", "4", "5", "6", "7", "8", "9", "0" >>

IsDigit(c) == \E i \in DOMAIN DigitChars : DigitChars[i] = c

\* count digits, the first being the from-th of 1234567890 1234...
Digits(from, count) == [i \in 1..count |-> DigitChars[((from + i - 2) % 10) + 1]]

\* a match of the international pattern with n digits: '+', a country code
\* of 1 to 3 digits and groups of at most 4, 4 and 9 digits
CountryLen(n) == IF n <= 11 THEN 1 ELSE IF n = 12 THEN 2 ELSE 3
Group1Len(n) ==
    LET rest == n - CountryLen(n)
    IN  IF rest <= 6 THEN 1 ELSE IF rest <= 10 THEN 3 ELSE 4
Group3Len(n) == n - CountryLen(n) - 2 * Group1Len(n)

\* +12345678901
IntlBare(n) == << "+" >> \o Digits(1, n)

\* +1 (234) 567 8901
IntlSpaced(n) ==
    LET cc == CountryLen(n)
        g == Group1Len(n)
    IN  << "+" >> \o Digits(1, cc) \o << " ", "(" >> \o Digits(cc + 1, g) \o << ")", " " >>
            \o Digits(cc + g + 1, g) \o << " " >> \o Digits(cc + 2 * g + 1, Group3Len(n))

\* a run of more than 15 digits after the '+' holds a match of the US
\* pattern, so the long matches are the spaced ones
IntlMatches ==
    { IntlSpaced(n) : n \in 4..MaxDigits }
        \cup { IntlBare(n) : n \in 4..(IF MaxDigits < MaxPhoneDigits THEN MaxDigits ELSE MaxPhoneDigits) }

\* 1234567890, (123) 456-7890, 123-456-7890
USMatches ==
    { Digits(1, 10),
      << "(" >> \o Digits(1, 3) \o << ")", " " >> \o Digits(4, 3) \o << "-" >> \o Digits(7, 4),
      Digits(1, 3) \o << "-" >> \o Digits(4, 3) \o << "-" >> \o Digits(7, 4) }

\* 12345 67890, 12345-67890
IndianMatches == { Digits(1, 5) \o << sep >> \o Digits(6, 5) : sep \in {" ", "-"} }

\* a match with the number of the pattern that found it
Candidates ==
    { [pattern |-> 1, text |-> t] : t \in IntlMatches }
        \cup { [pattern |-> 2, text |-> t] : t \in USMatches }
        \cup { [pattern |-> 4, text |-> t] : t \in IndianMatches }

\* the lists of matches in the order of the loops
MatchLists(max) ==
    UNION { { [i \in 1..n |-> cs[i].text] :
                cs \in { l \in [1..n -> Candidates] :
                           \A i \in 1..(n - 1) : l[i].pattern <= l[i + 1].pattern } } :
            n \in 1..max }

\* re.sub(r'[^\d+]', '', match)
Normalized(match) == SelectSeq(match, LAMBDA c : IsDigit(c) \/ c = "+")

\* re.sub(r'\D', '', normalized)
DigitsOf(match) == SelectSeq(match, IsDigit)

StartsWithPlus(t) == t # << >> /\ t[1] = "+"

\* a ten-digit number gets no country code
PlusOnly(digits) == << "+" >> \o digits

\* f"+1{digits}"
PlusOne(digits) == << "+", "1" >> \o digits

Accepted(match) ==
    /\ MinPhoneDigits <= Len(DigitsOf(match))
    /\ Len(DigitsOf(match)) <= MaxPhoneDigits

Formatted(match) ==
    IF Len(DigitsOf(match)) = 10 /\ ~StartsWithPlus(Normalized(match))
    THEN PlusOne(DigitsOf(match))
    ELSE IF ~StartsWithPlus(Normalized(match))
    THEN << "+" >> \o DigitsOf(match)
    ELSE Normalized(match)

\* extract_phone returned None
NoPhone == << >>

\* the first match that passes the validation, formatted
RECURSIVE extract_phone(_)
extract_phone(matches) ==
    IF matches = << >> THEN NoPhone
    ELSE IF Accepted(Head(matches)) THEN Formatted(Head(matches))
    ELSE extract_phone(Tail(matches))

PhoneInit ==
    /\ NoRequest
    /\ NoMerge
    /\ u_in \in MatchLists(MaxMatches)
    /\ u_out = << >>
    /\ u_done = FALSE

ApplyPhone ==
    /\ ~u_done
    /\ u_out' = extract_phone(u_in)
    /\ u_done' = TRUE
    /\ UNCHANGED << batchVars, mergeVars, u_in >>

PhoneNext == ApplyPhone

PhoneSpec == PhoneInit /\ [][PhoneNext]_vars

\* the digits of a candidate, in their order
DigitString(t) == SelectSeq(t, IsDigit)

\* candidate i is the one the loops stop at: none before it has 10 to 15 digits
FirstUsable(i) ==
    /\ i \in DOMAIN u_in
    /\ \A j \in 1..(i - 1) : Len(DigitString(u_in[j])) < 10 \/ Len(DigitString(u_in[j])) > 15

\* C19 (as claimed): a candidate of ten digits without '+' gives "+1" and
\* the ten digits; a candidate with a leading '+' and 11 or more digits
\* gives '+' and its digits.
C19_PhoneNormalizedAsClaimed ==
    u_done =>
        \A i \in DOMAIN u_in :
            /\ (FirstUsable(i) /\ u_in[i][1] # "+" /\ Len(DigitString(u_in[i])) = 10)
                   => u_out = << "+", "1" >> \o DigitString(u_in[i])
            /\ (FirstUsable(i) /\ u_in[i][1] = "+" /\ Len(DigitString(u_in[i])) >= 11)
                   => u_out = << "+" >> \o DigitString(u_in[i])

\* C19 (amended): a candidate of ten digits without '+' gives "+1" and the
\* ten digits; a candidate with a leading '+' and 11 to 15 digits gives '+'
\* and its digits.
C19_PhoneNormalized ==
    u_done =>
        \A i \in DOMAIN u_in :
            /\ (FirstUsable(i) /\ u_in[i][1] # "+" /\ Len(DigitString(u_in[i])) = 10)
                   => u_out = << "+", "1" >> \o DigitString(u_in[i])
            /\ (FirstUsable(i) /\ u_in[i][1] = "+"
                    /\ Len(DigitString(u_in[i])) >= 11 /\ Len(DigitString(u_in[i])) <= 15)
                   => u_out = << "+" >> \o DigitString(u_in[i])

C19_Witness ==
    /\ u_done
    /\ Len(u_in) = 2
    /\ u_in[1] = IntlSpaced(MaxDigits)
    /\ u_in[2] = IntlSpaced(MaxPhoneDigits)
    /\ u_out = << "+" >> \o Digits(1, MaxPhoneDigits)

(***************************************************************************)
(* extract_qualification.  The input is the searched section, lower-cased, *)
(* as its sequence of words; a keyword occurs when one of the words is the *)
(* keyword (the \b...\b search).                                           *)
(***************************************************************************)
MaxWords == 3

\* degree keywords, the words of "high school", an institution
Words ==
    { "phd", "masters", "mba", "bachelors", "diploma", "associate",
      "high", "school", "stanford", "university" }

Sections == UNION { [1..n -> Words] : n \in 0..MaxWords }

\* the degree families, highest first, with the keywords the vocabulary has
degrees ==
    << [degree_name |-> "PhD", keywords |-> {"phd"}],
       [degree_name |-> "Masters", keywords |-> {"masters", "mba"}],
       [degree_name |-> "Bachelors", keywords |-> {"bachelors"}],
       [degree_name |-> "Diploma", keywords |-> {"diploma"}],
       [degree_name |-> "Associate", keywords |-> {"associate"}] >>

\* re.search(rf'\b{kw}\b', edu_lower) for one of the family's keywords
Occurs(family, section) == \E i \in DOMAIN section : section[i] \in family.keywords

\* the first family of the list with a keyword in the section
extract_qualification(section) ==
    IF \A k \in DOMAIN degrees : ~Occurs(degrees[k], section) THEN None
    ELSE LET k == CHOOSE q \in DOMAIN degrees :
                      /\ Occurs(degrees[q], section)
                      /\ \A h \in 1..(q - 1) : ~Occurs(degrees[h], section)
         IN  degrees[k].degree_name

QualInit ==
    /\ NoRequest
    /\ NoMerge
    /\ u_in \in Sections
    /\ u_out = << >>
    /\ u_done = FALSE

ApplyQual ==
    /\ ~u_done
    /\ u_out' = extract_qualification(u_in)
    /\ u_done' = TRUE
    /\ UNCHANGED << batchVars, mergeVars, u_in >>

QualNext == ApplyQual

QualSpec == QualInit /\ [][QualNext]_vars

\* the ranking of the degree families, highest tier first
ClaimedRanking ==
    << {"PhD"}, {"Masters"}, {"Bachelors"}, {"Diploma", "Associate"}, {"High School"} >>

\* the section names the family: one of its keywords occurs, and for High
\* School, which has no keyword list, the two words of its name
Mentions(section, name) ==
    IF name = "High School"
    THEN \E i \in 1..(Len(section) - 1) : section[i] = "high" /\ section[i + 1] = "school"
    ELSE \E k \in DOMAIN degrees : degrees[k].degree_name = name /\ Occurs(degrees[k], section)

MentionedTiers(section) ==
    { r \in DOMAIN ClaimedRanking : \E name \in ClaimedRanking[r] : Mentions(section, name) }

\* C20 (as claimed): the result is a name of the highest tier of the ranking
\* PhD > Masters > Bachelors > Diploma/Associate > High School that the
\* section mentions, wherever in the section it is mentioned, and unknown
\* when the section mentions none; it is never another text.
C20_HighestRankReturned ==
    u_done =>
        IF MentionedTiers(u_in) = {} THEN u_out = None
        ELSE \E r \in MentionedTiers(u_in) :
                /\ \A q \in MentionedTiers(u_in) : r <= q
                /\ u_out \in ClaimedRanking[r]
                /\ Mentions(u_in, u_out)

(***************************************************************************)
(* extract_name.  A text is its sequence of lines, a line its sequence of  *)
(* whitespace-separated words; an empty or blank line has no word.  The    *)
(* texts are some filler lines followed by a few lines of any kind.        *)
(***************************************************************************)
MaxFiller == 16
MaxTail == 2

\* the number of non-empty lines extract_name looks at
ScanLines == 15

\* words of the blocklist pattern, in the case they have in the lines
BlocklistWords == { "University" }

\* re.search(blocklist, line, re.I)
HasBlocklisted(line) == \E i \in DOMAIN line : line[i] \in BlocklistWords

\* re.search(r'@|http|www|\d{7,}', line)
HasMarker(line) == \E i \in DOMAIN line : line[i] \in { "john@example.com", "5551234567" }

\* the word matches the name-component pattern or is Jr, Sr, II, III
NameComponent(w) ==
    w \in { "John", "Smith", "Jane", "M.", "Doe", "Stanford", "University",
            "Software", "Engineer", "Call", "Jr", "Mary", "Ann", "Lee", "Van" }

NameLines ==
    { << >>,
      << "John", "Smith" >>,
      << "Jane", "M.", "Doe" >>,
      << "Stanford", "University" >>,
      << "Software", "Engineer" >>,
      << "john@example.com" >>,
      << "Name:", "John", "Smith" >>,
      << "Mary", "Ann", "Lee", "Van", "Jr" >>,
      << "john", "smith" >>,
      << "Call", "5551234567" >> }

\* a line no check accepts, and a blank line
FillerLines == { << "john", "smith" >>, << >> }

NameTexts(maxfiller, maxtail) ==
    { [i \in 1..k |-> filler] \o tail :
          filler \in FillerLines, k \in 0..maxfiller,
          tail \in UNION { [1..n -> NameLines] : n \in 0..maxtail } }

\* the list without the [:15]
AllLines(text) == SelectSeq(text, LAMBDA l : l # << >>)

\* [l.strip() for l in text.split('\n') if l.strip()][:15]
FirstLines(text) ==
    LET nonempty == SelectSeq(text, LAMBDA l : l # << >>)
    IN  SubSeq(nonempty, 1, IF Len(nonempty) < ScanLines THEN Len(nonempty) ELSE ScanLines)

\* the three checks of the loop body
IsNameLine(line) ==
    /\ ~HasBlocklisted(line)
    /\ ~HasMarker(line)
    /\ 2 <= Len(line) /\ Len(line) <= 4
    /\ \A i \in DOMAIN line : NameComponent(line[i])

\* extract_name returned None
NoName == << >>

RECURSIVE FirstNameLine(_)
FirstNameLine(lines) ==
    IF lines = << >> THEN NoName
    ELSE IF IsNameLine(Head(lines)) THEN Head(lines)
    ELSE FirstNameLine(Tail(lines))

extract_name(text) == FirstNameLine(FirstLines(text))

NameInit ==
    /\ NoRequest
    /\ NoMerge
    /\ u_in \in NameTexts(MaxFiller, MaxTail)
    /\ u_out = << >>
    /\ u_done = FALSE

ApplyName ==
    /\ ~u_done
    /\ u_out' = extract_name(u_in)
    /\ u_done' = TRUE
    /\ UNCHANGED << batchVars, mergeVars, u_in >>

NameNext == ApplyName

NameSpec == NameInit /\ [][NameNext]_vars

\* the number of non-empty lines among the first i lines of the text
Rank(text, i) == Cardinality({ j \in 1..i : text[j] # << >> })

\* line i is one of the first 15 non-empty lines and passes every check
Qualifies(text, i) ==
    /\ i \in DOMAIN text
    /\ text[i] # << >>
    /\ Rank(text, i) <= 15
    /\ \A k \in DOMAIN text[i] : text[i][k] # "University"
    /\ \A k \in DOMAIN text[i] : text[i][k] \notin { "john@example.com", "5551234567" }
    /\ Len(text[i]) \in 2..4
    /\ \A k \in DOMAIN text[i] : NameComponent(text[i][k])

\* C21: the result is the first of the first 15 non-empty lines that has no
\* blocklisted word, no email, URL or long digit run and is made of 2 to 4
\* name-shaped words; a line with a blocklisted word is never the result,
\* and the result is unknown when no line qualifies.
C21_FirstQualifyingLine ==
    u_done =>
        /\ (\E i \in DOMAIN u_in : Qualifies(u_in, i)) =>
              \E i \in DOMAIN u_in :
                  /\ Qualifies(u_in, i)
                  /\ \A j \in 1..(i - 1) : ~Qualifies(u_in, j)
                  /\ u_out = u_in[i]
        /\ (\A i \in DOMAIN u_in : ~Qualifies(u_in, i)) => u_out = NoName
        /\ \A k \in DOMAIN u_out : u_out[k] # "University"

C21_Witness ==
    /\ u_done
    /\ Len(u_in) = 16
    /\ u_in[1] = << >>
    /\ u_in[15] = << "Stanford", "University" >>
    /\ u_in[16] = << "Jane", "M.", "Doe" >>
    /\ u_out = << "Jane", "M.", "Doe" >>

\* the line is an explicit name label followed by a name
IsLabelled(line) == line # << >> /\ line[1] = "Name:" /\ Len(line) >= 2

\* C29 (as claimed): when the text has a 'Name:' line, the name is taken
\* from the first such line, not from the scan of the capitalized lines.
C29_LabelledNamePreferred ==
    u_done =>
        \A i \in DOMAIN u_in :
            (IsLabelled(u_in[i]) /\ \A j \in 1..(i - 1) : ~IsLabelled(u_in[j]))
                => u_out \in { u_in[i], Tail(u_in[i]) }

(***************************************************************************)
(* extract_city and extract_state.  A text is its sequence of lines, a     *)
(* line its sequence of tokens: the words, and the comma as a token of its *)
(* own.  Both functions search the text as one string, so the lines are    *)
(* joined; the vocabulary has no city or state of two words.               *)
(***************************************************************************)
MaxLocLines == 3

\* the sample resume of the download button
SampleText ==
    << << "John", "Doe" >>,
       << "john.doe@example.com" >>,
       << "+1", "(555)", "123-4567" >>,
       << >>,
       << "Experience" >>,
       << "Senior", "Developer", "at", "Acme", "Corp", ",", "Jan", "2020", "-", "Present" >>,
       << >>,
       << "Education" >>,
       << "Master", "of", "Science", "in", "Computer", "Science" >>,
       << >>,
       << "6", "years", "of", "experience" >>,
       << >>,
       << "Springfield", ",", "Illinois" >> >>

LocLines ==
    { << "John", "Doe" >>,
      << "Senior", "Developer", "at", "Acme", "Corp", ",", "Jan", "2020", "-", "Present" >>,
      << "Senior", "Developer", "at", "Acme", "Corp" >>,
      << "Springfield", ",", "Illinois" >>,
      << "Boston", "and", "Chicago" >>,
      << "Austin", ",", "Texas" >>,
      << "Skills" >> }

LocTexts == { SampleText } \cup UNION { [1..n -> LocLines] : n \in 0..MaxLocLines }

\* the token matches [A-Z][a-z]+
IsCapitalized(w) ==
    w \in { "John", "Doe", "Experience", "Senior", "Developer", "Acme", "Corp", "Jan",
            "Present", "Education", "Master", "Science", "Computer", "Springfield",
            "Illinois", "Boston", "Chicago", "Austin", "Texas", "Skills" }

\* the entries of the two lists that the vocabulary has, in list order,
\* as str.title() gives them
cities == << "Chicago", "Boston" >>
states == << "Texas", "Illinois" >>

RECURSIVE JoinTokens(_)
JoinTokens(text) == IF text = << >> THEN << >> ELSE Head(text) \o JoinTokens(Tail(text))

\* text[:skills_pos]: the tokens before the first one that holds 'skills'
BeforeSkills(tokens) ==
    IF \A i \in DOMAIN tokens : tokens[i] # "Skills" THEN tokens
    ELSE SubSeq(tokens, 1,
                (CHOOSE i \in DOMAIN tokens :
                     tokens[i] = "Skills" /\ \A j \in 1..(i - 1) : tokens[j] # "Skills") - 1)

\* the first entry of the list that occurs in the text
FirstKnown(list, tokens) ==
    IF \A k \in DOMAIN list : \A i \in DOMAIN tokens : tokens[i] # list[k] THEN << >>
    ELSE << list[CHOOSE k \in DOMAIN list :
                     /\ \E i \in DOMAIN tokens : tokens[i] = list[k]
                     /\ \A h \in 1..(k - 1) : \A i \in DOMAIN tokens : tokens[i] # list[h]] >>

\* a match of  \b[A-Z][a-z]+(\s+[A-Z][a-z]+)?,\s*[A-Z][a-z]+  starts at token i
\* with a first group of two words, of one word
TwoWordsAt(tokens, i) ==
    /\ i + 3 <= Len(tokens)
    /\ IsCapitalized(tokens[i]) /\ IsCapitalized(tokens[i + 1])
    /\ tokens[i + 2] = "," /\ IsCapitalized(tokens[i + 3])

OneWordAt(tokens, i) ==
    /\ i + 2 <= Len(tokens)
    /\ IsCapitalized(tokens[i])
    /\ tokens[i + 1] = "," /\ IsCapitalized(tokens[i + 2])

MatchAt(tokens, i) == TwoWordsAt(tokens, i) \/ OneWordAt(tokens, i)

HasMatch(tokens) == \E i \in DOMAIN tokens : MatchAt(tokens, i)

\* matches[0]: the leftmost match
FirstMatch(tokens) ==
    CHOOSE i \in DOMAIN tokens : MatchAt(tokens, i) /\ \A j \in 1..(i - 1) : ~MatchAt(tokens, j)

\* the first group of the match that starts at token i
CityGroup(tokens, i) ==
    IF TwoWordsAt(tokens, i) THEN << tokens[i], tokens[i + 1] >> ELSE << tokens[i] >>

\* the group after the comma: one word, two when a capitalized word follows
StateGroup(tokens, i) ==
    LET c == IF TwoWordsAt(tokens, i) THEN i + 3 ELSE i + 2
    IN  IF c + 1 <= Len(tokens) /\ IsCapitalized(tokens[c + 1])
        THEN << tokens[c], tokens[c + 1] >>
        ELSE << tokens[c] >>

extract_city(text) ==
    LET tokens == BeforeSkills(JoinTokens(text))
    IN  IF FirstKnown(cities, tokens) # << >> THEN FirstKnown(cities, tokens)
        ELSE IF HasMatch(tokens) THEN CityGroup(tokens, FirstMatch(tokens))
        ELSE << >>

extract_state(text) ==
    LET tokens == BeforeSkills(JoinTokens(text))
    IN  IF FirstKnown(states, tokens) # << >> THEN FirstKnown(states, tokens)
        ELSE IF HasMatch(tokens) THEN StateGroup(tokens, FirstMatch(tokens))
        ELSE << >>

LocInit ==
    /\ NoRequest
    /\ NoMerge
    /\ u_in \in LocTexts
    /\ u_out = << >>
    /\ u_done = FALSE

ApplyLoc ==
    /\ ~u_done
    /\ u_out' = [city |-> extract_city(u_in), state |-> extract_state(u_in)]
    /\ u_done' = TRUE
    /\ UNCHANGED << batchVars, mergeVars, u_in >>

LocNext == ApplyLoc

LocSpec == LocInit /\ [][LocNext]_vars

\* C22 (as claimed): for the sample resume the rule engine gives the city
\* Springfield and the state Illinois.
C22_SampleLocation ==
    (u_done /\ u_in = SampleText) =>
        (u_out.city = << "Springfield" >> /\ u_out.state = << "Illinois" >>)

(***************************************************************************)
(* extract_pdf.  A method reads the pages in turn and may raise at any     *)
(* point; what it extracted until then is a sequence of page texts, each   *)
(* empty, blank or with words.  The returned text is the sequence of the   *)
(* page texts appended to it, each with the method it came from.           *)
(***************************************************************************)
MaxPages == 1

PageTexts == { "", "blank", "words" }

\* what PyPDF2, pdfplumber and pypdf do with the file
PageRuns == [pages : UNION { [1..n -> PageTexts] : n \in 0..MaxPages }, raised : BOOLEAN]

\* what pdfminer does: it raises, or returns the whole text
MinerRuns == { "raises", "", "blank", "words" }

PdfInputs == [m1 : PageRuns, m2 : PageRuns, m3 : PageRuns, m4 : MinerRuns]

\* text += page_text + "\n" for every page with a text
RECURSIVE Chunks(_, _, _)
Chunks(method, pages, k) ==
    IF k > Len(pages) THEN << >>
    ELSE (IF pages[k] # "" THEN << [method |-> method, kind |-> pages[k]] >> ELSE << >>)
             \o Chunks(method, pages, k + 1)

\* text.strip() is not empty
Visible(text) == \E i \in DOMAIN text : text[i].kind = "words"

\* the text a method appends to: what the methods before it left
CarryOver(text) == text

\* the text after one of the first three methods
After(method, run, text) == CarryOver(text) \o Chunks(method, run.pages, 1)

\* the method ended with  return text
Returns(run, text) == ~run.raised /\ Visible(text)

extract_pdf(file) ==
    LET t1 == After(1, file.m1, << >>)
        t2 == After(2, file.m2, t1)
        t3 == After(3, file.m3, t2)
        t4 == IF file.m4 = "raises" THEN t3
              ELSE IF file.m4 = "" THEN << >>
              ELSE << [method |-> 4, kind |-> file.m4] >>
    IN  IF Returns(file.m1, t1) THEN t1
        ELSE IF Returns(file.m2, t2) THEN t2
        ELSE IF Returns(file.m3, t3) THEN t3
        ELSE t4

PdfInit ==
    /\ NoRequest
    /\ NoMerge
    /\ u_in \in PdfInputs
    /\ u_out = << >>
    /\ u_done = FALSE

ApplyPdf ==
    /\ ~u_done
    /\ u_out' = extract_pdf(u_in)
    /\ u_done' = TRUE
    /\ UNCHANGED << batchVars, mergeVars, u_in >>

PdfNext == ApplyPdf

PdfSpec == PdfInit /\ [][PdfNext]_vars

\* the methods whose pages with words are in the text
Sources(text) == { text[i].method : i \in { j \in DOMAIN text : text[j].kind = "words" } }

\* method m ran to its end and its own output has words
Succeeds(file, m) ==
    CASE m = 1 -> ~file.m1.raised /\ Visible(Chunks(1, file.m1.pages, 1))
      [] m = 2 -> ~file.m2.raised /\ Visible(Chunks(2, file.m2.pages, 1))
      [] m = 3 -> ~file.m3.raised /\ Visible(Chunks(3, file.m3.pages, 1))
      [] m = 4 -> file.m4 = "words"

\* C23 (as claimed): the words of the returned text come from one method,
\* the first in priority order that ran to its end with a non-blank output,
\* and from no method that raised or whose output was rejected.
C23_OneMethodOnly ==
    u_done =>
        \A m \in Sources(u_out) :
            /\ Succeeds(u_in, m)
            /\ \A h \in 1..(m - 1) : ~Succeeds(u_in, h)
            /\ Sources(u_out) = { m }

(***************************************************************************)
(* Two documents with the same rule-engine result and two model answers:   *)
(* the record each ends with.                                              *)
(***************************************************************************)
PairEntries ==
    { NullEntry, Scored("llm", 95), Scored("llm", 79), TextConfidence("llm"), Bare("llm") }

\* answers that are one object with entries for state and email
PairOutputs ==
    { LlmDict([f \in FieldSet |->
                  IF f = "state" THEN e1 ELSE IF f = "email" THEN e2 ELSE NullEntry]) :
          e1 \in PairEntries, e2 \in PairEntries }

PairInputs ==
    [parsed : { parse_resume_text(c) : c \in BatchContents \ { NoContent } },
     a : PairOutputs, b : PairOutputs]

\* the record of the document after the merge and its exception handler
FinalRecord(parsed, answer) ==
    IF PostCallFaults(answer)
    THEN ResultsAfterFault(<< EmptySlot >>, 1, "resume0")[1]
    ELSE PostCallRecord(parsed, answer)

PairInit ==
    /\ NoRequest
    /\ NoMerge
    /\ u_in \in PairInputs
    /\ u_out = << >>
    /\ u_done = FALSE

ApplyPair ==
    /\ ~u_done
    /\ u_out' = [a |-> FinalRecord(u_in.parsed, u_in.a), b |-> FinalRecord(u_in.parsed, u_in.b)]
    /\ u_done' = TRUE
    /\ UNCHANGED << batchVars, mergeVars, u_in >>

PairNext == ApplyPair

PairSpec == PairInit /\ [][PairNext]_vars

\* C24 (as claimed): for the same rule-engine result, two model answers
\* with the same entry for a field give the same final value for the field,
\* whatever their other entries are.
C24_FieldsIndependent ==
    u_done =>
        \A f \in FieldSet :
            u_in.a.obj[f] = u_in.b.obj[f] => u_out.a[f] = u_out.b[f]

(***************************************************************************)
(* The batch under fair scheduling: the request thread and every pool      *)
(* thread that can take a step eventually takes one; a model call that has *)
(* started returns, and a wait on the limiter ends with a permit or with   *)
(* its timeout.                                                            *)
(***************************************************************************)
\* the steps of the request thread
MainStep == SubmitChunk \/ WaitDone \/ Return

\* the steps of the task of document d
TaskStep(d) ==
    /\ d \in Docs
    /\ \/ StartTask(d)
       \/ \E c \in BatchContents : ReadAndParse(d, c)
       \/ Acquire(d)
       \/ AcquireTimeout(d)
       \/ \E out \in BatchOutputs : CallReturns(d, out)

Fairness == WF_vars(MainStep) /\ \A d \in 0..(MaxFiles - 1) : WF_vars(TaskStep(d))

\* the batches checked under fairness
MaxFairFiles == 2

FairInit == Init /\ total <= MaxFairFiles

FairSpec == FairInit /\ [][Next]_vars /\ Fairness

\* every submitted document has written its record and the batch returned
BatchDone ==
    /\ main = "returned"
    /\ \A d \in Docs : pc[d] = "done" /\ written[d] # << >>

\* C25: every batch terminates: every document writes its record and the
\* batch returns, for any pool width of at least 1 and any model-call limit
\* from 0 up; no task waits forever on the limiter.
C25_BatchTerminates == <>BatchDone

C25_Witness ==
    /\ BatchDone
    /\ llm_concurrency = 0
    /\ llm_available
    /\ total = MaxFairFiles
    /\ \E d \in Docs : timed_out[d]

(***************************************************************************)
(* The batch with a model call that may raise: the finally clause gives    *)
(* the slot back and the handler leaves the document without model result. *)
(***************************************************************************)
\* call_llm_extract raises; finally: llm_sema.release(); except: llm_result = None
CallRaises(d) ==
    /\ pc[d] = "calling"
    /\ llm_sema' = Release(llm_sema)
    /\ Store(d, parse_resume_text(content[d]), "done")
    /\ UNCHANGED << configVars, start, main, task_idx, content, llm_out, timed_out, queries,
                    response, mergeVars, unitVars >>

SlotNext == Next \/ \E d \in Docs : CallRaises(d)

SlotSpec == FairInit /\ [][SlotNext]_vars

\* C26: a slot is held exactly by the tasks inside the model call: every
\* acquired slot is given back once, also when the call raises, a task whose
\* acquire timed out gives nothing back, and when the batch has returned the
\* limiter has its configured number of permits again.
C26_SlotsReleasedOnce ==
    /\ llm_sema + Cardinality(InFlight) = llm_concurrency
    /\ \A d \in Docs : (timed_out[d] \/ pc[d] = "done") => d \notin InFlight
    /\ main = "returned" => llm_sema = llm_concurrency

C26_Witness ==
    /\ main = "returned"
    /\ llm_concurrency = 1
    /\ llm_sema = 1
    /\ \E d \in Docs : timed_out[d]
    /\ \E d \in Docs : queries[d] = 1 /\ llm_out[d] = NoOutput

(***************************************************************************)
(* extract_phone and extract_alternate_phone over the same list of         *)
(* matches.  extract_alternate_phone visits every match, so the matches of *)
(* the third pattern count here; a text with a run of 10 or 11 digits also *)
(* has a match of the second pattern.                                      *)
(***************************************************************************)
\* 1234567890 and 12345678901 as matches of \b\d{10,11}\b
PlainMatches == { Digits(1, 10), Digits(1, 11) }

\* matches of the first pattern: one with too few digits, one number in two
\* spellings, one with the most digits a phone may have
AltIntlMatches ==
    { IntlSpaced(MinPhoneDigits - 1), IntlSpaced(MinPhoneDigits + 1),
      IntlBare(MinPhoneDigits + 1), IntlSpaced(MaxPhoneDigits) }

AltCandidates ==
    { [pattern |-> 1, text |-> t] : t \in AltIntlMatches }
        \cup { [pattern |-> 2, text |-> t] : t \in USMatches }
        \cup { [pattern |-> 3, text |-> t] : t \in PlainMatches }
        \cup { [pattern |-> 4, text |-> t] : t \in IndianMatches }

AltMatchLists(max) ==
    UNION { { [i \in 1..n |-> cs[i].text] :
                cs \in { l \in [1..n -> AltCandidates] :
                           /\ \A i \in 1..(n - 1) : l[i].pattern <= l[i + 1].pattern
                           /\ (\E i \in 1..n : l[i].pattern = 3)
                                  => \E i \in 1..n : l[i].pattern = 2 } } :
            n \in 1..max }

\* phones.append(phone) without the test
AddAlways(phones, phone) == Append(phones, phone)

\* if phone not in phones: phones.append(phone)
AddPhone(phones, phone) ==
    IF \E i \in DOMAIN phones : phones[i] = phone THEN phones ELSE Append(phones, phone)

\* the list `phones` after the two loops
RECURSIVE CollectPhones(_, _)
CollectPhones(matches, phones) ==
    IF matches = << >> THEN phones
    ELSE IF Accepted(Head(matches))
    THEN CollectPhones(Tail(matches), AddPhone(phones, Formatted(Head(matches))))
    ELSE CollectPhones(Tail(matches), phones)

extract_alternate_phone(matches) ==
    LET phones == CollectPhones(matches, << >>)
    IN  IF Len(phones) > 1 THEN phones[2] ELSE NoPhone

AltInit ==
    /\ NoRequest
    /\ NoMerge
    /\ u_in \in AltMatchLists(MaxMatches)
    /\ u_out = << >>
    /\ u_done = FALSE

ApplyAlt ==
    /\ ~u_done
    /\ u_out' = [phone_number |-> extract_phone(u_in),
                 alternate_phone_number |-> extract_alternate_phone(u_in)]
    /\ u_done' = TRUE
    /\ UNCHANGED << batchVars, mergeVars, u_in >>

AltNext == ApplyAlt

AltSpec == AltInit /\ [][AltNext]_vars

\* the accepted candidates of the list, normalized, in the order seen
AcceptedNumbers(matches) ==
    LET acc == SelectSeq(matches, LAMBDA c : Len(DigitString(c)) >= 10 /\ Len(DigitString(c)) <= 15)
    IN  [i \in DOMAIN acc |-> Formatted(acc[i])]

\* C27: the primary phone is the first accepted candidate and the alternate
\* the first one after it with another normalized value; when there is an
\* alternate there is a primary, and the two differ.
C27_PrimaryAndAlternate ==
    u_done =>
        LET nums == AcceptedNumbers(u_in)
            others == { i \in DOMAIN nums : nums[i] # nums[1] }
        IN  /\ u_out.phone_number = (IF nums = << >> THEN NoPhone ELSE nums[1])
            /\ u_out.alternate_phone_number =
                   (IF others = {} THEN NoPhone
                    ELSE nums[CHOOSE i \in others : \A j \in others : i <= j])
            /\ u_out.alternate_phone_number # NoPhone =>
                   /\ u_out.phone_number # NoPhone
                   /\ u_out.phone_number # u_out.alternate_phone_number

C27_Witness ==
    /\ u_done
    /\ u_in = << IntlSpaced(11), Digits(1, 10) >>
    /\ u_out.phone_number = << "+" >> \o Digits(1, 11)
    /\ u_out.alternate_phone_number = << "+", "1" >> \o Digits(1, 10)

(***************************************************************************)
(* extract_section.  A text is a sequence of characters in which a header  *)
(* word is one character: E is the header looked for, S another header of  *)
(* the list of next headers.                                               *)
(***************************************************************************)
MaxSecLen == 4
MaxWindow == 2

SecChars == { "E", "S", "x", " ", "\n" }

RECURSIVE SecTextsOfLen(_)
SecTextsOfLen(n) ==
    IF n = 0 THEN { << >> }
    ELSE { Append(t, c) : t \in SecTextsOfLen(n - 1), c \in SecChars }

SecInputs(maxlen, maxwindow) ==
    [text : UNION { SecTextsOfLen(n) : n \in 0..maxlen }, window : 1..maxwindow]

\* the headers of the list next_headers
next_headers == << "E", "S" >>

\* the stripped line is the header, or starts with the header and a blank
\* (the texts here hold no colon)
IsHeaderLine(line, header) ==
    LET l == Strip(line)
    IN  \/ l = << header >>
        \/ Len(l) >= 2 /\ l[1] = header /\ l[2] = " "

\* str.find: the first position where pat occurs in t, 0 when it does not
OccursAt(t, pat, p) == p + Len(pat) - 1 <= Len(t) /\ SubSeq(t, p, p + Len(pat) - 1) = pat

Find(t, pat) ==
    IF \E p \in 1..(Len(t) + 1) : OccursAt(t, pat, p)
    THEN CHOOSE p \in 1..(Len(t) + 1) :
             OccursAt(t, pat, p) /\ \A q \in 1..(p - 1) : ~OccursAt(t, pat, q)
    ELSE 0

\* text.find('\n', from), the position after the text when there is none
LineEnd(t, from) ==
    IF \E p \in from..Len(t) : t[p] = "\n"
    THEN CHOOSE p \in from..Len(t) : t[p] = "\n" /\ \A q \in from..(p - 1) : t[q] # "\n"
    ELSE Len(t) + 1

\* the first line that is a line of the header, 0 when there is none
FirstHeaderLine(lines, header) ==
    IF \E i \in DOMAIN lines : IsHeaderLine(lines[i], header)
    THEN CHOOSE i \in DOMAIN lines :
             IsHeaderLine(lines[i], header) /\ \A j \in 1..(i - 1) : ~IsHeaderLine(lines[j], header)
    ELSE 0

\* next_pos for the header nh, counted from 0; -1 when no line is its header
NextPos(remaining, nh) ==
    LET j == FirstHeaderLine(SplitLines(remaining), nh)
    IN  IF j = 0 THEN -1 ELSE Find(remaining, SplitLines(remaining)[j]) - 1

\* min_next after the loop over next_headers
MinNext(remaining, header) ==
    LET found == { NextPos(remaining, next_headers[k]) :
                       k \in { h \in DOMAIN next_headers : next_headers[h] # header } }
        cuts == { n \in found : n # -1 /\ n < Len(remaining) }
    IN  IF cuts = {} THEN Len(remaining)
        ELSE CHOOSE n \in cuts : \A o \in cuts : n <= o

\* found is FALSE when the function returns None
extract_section(text, header, window) ==
    LET i == FirstHeaderLine(SplitLines(text), header)
    IN  IF i = 0 THEN [found |-> FALSE, span |-> << >>]
        ELSE LET line_start_pos == Find(text, SplitLines(text)[i])
                 section_start == LineEnd(text, line_start_pos) + 1
                 last == IF section_start + window - 1 < Len(text)
                         THEN section_start + window - 1 ELSE Len(text)
                 remaining == SubSeq(text, section_start, last)
             IN  [found |-> TRUE,
                  span |-> Strip(SubSeq(remaining, 1, MinNext(remaining, header)))]

SecInit ==
    /\ NoRequest
    /\ NoMerge
    /\ u_in \in SecInputs(MaxSecLen, MaxWindow)
    /\ u_out = << >>
    /\ u_done = FALSE

ApplySec ==
    /\ ~u_done
    /\ u_out' = extract_section(u_in.text, "E", u_in.window)
    /\ u_done' = TRUE
    /\ UNCHANGED << batchVars, mergeVars, u_in >>

SecNext == ApplySec

SecSpec == SecInit /\ [][SecNext]_vars

\* the text after line i
RECURSIVE AfterLine(_, _)
AfterLine(t, i) ==
    IF i = 0 THEN t
    ELSE IF t = << >> THEN << >>
    ELSE IF Head(t) = "\n" THEN AfterLine(Tail(t), i - 1)
    ELSE AfterLine(Tail(t), i)

\* the characters of rest that come before its first line of another header
BeforeNextHeader(rest) ==
    LET ls == SplitLines(rest)
        j == FirstHeaderLine(ls, "S")
    IN  IF j = 0 THEN Len(rest) ELSE Len(rest) - Len(AfterLine(rest, j - 1))

\* C28 (as claimed): the span is taken from the text right after the
\* matched header line: it is the trimmed text of the first k characters
\* after that line, for a k within the window and before the next header
\* line; it never starts before the header line.
C28_SpanAfterHeader ==
    (u_done /\ u_out.found) =>
        LET rest == AfterLine(u_in.text, FirstHeaderLine(SplitLines(u_in.text), "E"))
        IN  \E k \in 0..Len(rest) :
                /\ k <= u_in.window
                /\ k <= BeforeNextHeader(rest)
                /\ u_out.span = Strip(SubSeq(rest, 1, k))

(***************************************************************************)
(* extract_qualification on sections that attribute a degree to an         *)
(* institution ("masters from stanford university").  parse_resume_text    *)
(* and parse_resume call the extract_qualification of resume_parser.       *)
(***************************************************************************)
MaxAttrWords == 4

AttrWords == { "masters", "diploma", "from", "stanford", "university" }

AttrSections == UNION { [1..n -> AttrWords] : n \in 0..MaxAttrWords }

AttrInit ==
    /\ NoRequest
    /\ NoMerge
    /\ u_in \in AttrSections
    /\ u_out = << >>
    /\ u_done = FALSE

ApplyAttr ==
    /\ ~u_done
    /\ u_out' = extract_qualification(u_in)
    /\ u_done' = TRUE
    /\ UNCHANGED << batchVars, mergeVars, u_in >>

AttrNext == ApplyAttr

AttrSpec == AttrInit /\ [][AttrNext]_vars

\* the words around the keyword at i, 40 characters before it and 100 after:
\* a section of MaxAttrWords of these words lies within them whole
Context(section, i) == section

\* from\s+[a-z\s]+university: "from", at least one word, "university"
bad_patterns(context) ==
    \E f \in DOMAIN context : \E v \in DOMAIN context :
        /\ context[f] = "from"
        /\ v > f + 1
        /\ context[v] = "university"

\* the match of a keyword at i is one the institution pattern rejects
Rejected(section, i) == bad_patterns(Context(section, i))

\* C30 (as claimed): a keyword match whose context matches the institution
\* pattern is rejected and the scan goes on: a returned degree name rests
\* on a match of one of its keywords that the pattern does not reject.
C30_AttributedMatchRejected ==
    (u_done /\ u_out # None) =>
        \E k \in DOMAIN degrees :
            /\ degrees[k].degree_name = u_out
            /\ \E i \in DOMAIN u_in :
                   u_in[i] \in degrees[k].keywords /\ ~Rejected(u_in, i)

====
